---- MODULE Spec2Model ----
(***************************************************************************)
(* State machine of the TalkingHead class (src/lib/talkinghead.mjs): the   *)
(* audio playback bridge, the viseme scheduler, the morph-target renderer, *)
(* the animation loop and dispose.                                         *)
(*                                                                         *)
(* Time is counted in units of 0.05 s (50 ms): the audioBufferDelay of     *)
(* streamAudio is one unit.  Morph influences are counted in tenths:       *)
(* influence 1 is 10, the 0.3 of a happy mouthSmile is 3.                  *)
(***************************************************************************)
EXTENDS Integers, Sequences, FiniteSets, TLC

(* ------------------------------ bounds -------------------------------- *)

\* streamAudio calls issued over the life of the instance
MaxCalls == 2
\* the engine clock audioCtx.currentTime is followed up to this reading
MaxCtxTime == 3
\* TalkingHead instances the AvatarCanvas effect creates
MaxInstances == 2
\* startSession calls of the session hook
MaxSessions == 2

(* --------------------------- program constants ------------------------ *)

\* const audioBufferDelay = 0.05, in units of 0.05 s
audioBufferDelay == 1
\* influence written for the selected viseme (1), in tenths
InfluenceOn == 10
\* influence written to mouthSmile for mood 'happy' (0.3), in tenths
SmileHappy == 3

\* the reset list of setViseme
visemeNames ==
  <<"aa", "E", "I", "O", "U", "PP", "SS", "DD", "FF", "kk", "nn", "RR", "sil">>

KnownVisemes == { visemeNames[i] : i \in 1..Len(visemeNames) }

\* `viseme_${v}`
VisemeChannel(v) == "viseme_" \o v

\* Viseme names a phoneme mapper hands to playVisemes.  The mapper modules
\* (lipsync-*.mjs) are collaborators outside the sources; its interface is
\* wordsToVisemes(text) -> {visemes: list<name>, times, durations}, the names
\* being those of the Oculus viseme set, of which setViseme's reset list
\* leaves out TH.
MapperVisemes == KnownVisemes \cup {"TH"}

\* every morph channel a mesh of the model may carry
Channels == { VisemeChannel(v) : v \in MapperVisemes } \cup {"mouthSmile"}

VisemeChannels == { VisemeChannel(v) : v \in MapperVisemes }

KnownVisemeChannels == { VisemeChannel(v) : v \in KnownVisemes }

\* headMesh before showAvatar resolved, or when no child has a dictionary
NoMesh == {"<none>"}

\* morphTargetDictionary of the meshes an asset may resolve to: a Ready
\* Player Me head with every channel, and a head lacking viseme_PP and
\* mouthSmile
FullMesh == Channels
PartialMesh == Channels \ {VisemeChannel("PP"), "mouthSmile"}
Meshes == {FullMesh, PartialMesh}

Moods == {"happy", "neutral", "angry"}

(* ------------------------- phoneme mapper ----------------------------- *)

\* texts of the chunks of the model; "" is a chunk without words
Texts == {"", "path", "..."}

\* wordsToVisemes(text): times and durations in units of 0.05 s
wordsToVisemes(text) ==
  CASE text = "path" -> [visemes |-> <<"PP", "TH">>, times |-> <<0, 1>>,
                         durations |-> <<1, 0>>]
    [] OTHER         -> [visemes |-> <<>>, times |-> <<>>, durations |-> <<>>]

\* words: textChunk ? [textChunk] : []   (handleModelAudio)
Words(text) == IF text = "" THEN <<>> ELSE <<text>>


(* ------------------------------- state -------------------------------- *)

VARIABLES
  audioCtx,               \* "null" | "running" | "closed"
  ctxTime,                \* audioCtx.currentTime, in units
  audioWorkletNode,       \* TRUE once the AudioWorkletNode exists
  audioStartTime,         \* the clock anchor
  posted,                 \* number of audioData messages posted to the worklet
  inflight,               \* streamAudio calls suspended at `await addModule`
  calls,                  \* streamAudio calls issued so far; a call's id
  timers,                 \* the platform's outstanding setTimeout timers
  visemeTimeouts,         \* this.visemeTimeouts: the handles pushed
  nextHandle,             \* next handle setTimeout returns
  isSpeaking,
  avatarLoad,             \* showAvatar: "loading" | "resolved" | "rejected"
  headMesh,               \* NoMesh, or the mesh's morphTargetDictionary
  morphTargetInfluences,  \* channel -> influence in tenths
  avatarMood,             \* this.opt.avatarMood
  rafPending,             \* an animation-frame callback is registered
  attached,               \* renderer.domElement is a child of nodeAvatar
  rendererDisposed,       \* renderer.dispose() ran: dispose() was called
  observing,              \* the ResizeObserver is connected
  stopped,                \* history: stopSpeaking ran, no streamAudio issued since
  wordCalls,              \* history: id of the latest call issued with words
  lastCancelled,          \* history: timers the latest forEach(clearTimeout) cancelled
  renderedDisposed,       \* history: a frame was rendered after dispose()
  tickThrew,              \* history: an exception left animate()
  disposeThrew,           \* history: a dispose() call threw
  \* AvatarCanvas and App (src/unnamed/part_000, src/App.tsx)
  instances,              \* the TalkingHead instances created: load, disposed
  canvasMounted,          \* the AvatarCanvas effect is set up
  talkingHeadInstance,    \* AvatarCanvas's ref: 0 (null) or an instance
  talkingHeadRef,         \* App's ref: 0 (null) or an instance
  lastCall,               \* history: the method App called last
  usedDisposed,           \* history: App called a method of a disposed instance
  loadedDisposed,         \* history: onLoad was handed a disposed instance
  \* useGeminiLive (src/hooks/useGeminiLive.ts) and App's sessionState
  sessionState,           \* the state last reported
  prevState,              \* the state reported before it
  sessions,               \* the startSession calls: phase, conn, stream, ctx
  sessionPromiseRef,      \* 0 (null) or the session whose promise it holds
  audioContextRef,        \* 0 (null) or the session whose context it holds
  mediaStreamRef,         \* 0 (null) or the session whose stream it holds
  sourceRef,              \* 0 (null) or the session whose source node and
                          \* script processor sourceRef/scriptProcessorRef hold
  sessionStopped          \* history: stopSession ran, no startSession since

headVars == <<audioCtx, ctxTime, audioWorkletNode, audioStartTime, posted, inflight,
          calls, timers, visemeTimeouts, nextHandle, isSpeaking, avatarLoad,
          headMesh, morphTargetInfluences, avatarMood, rafPending, attached,
          rendererDisposed, observing, stopped, wordCalls, lastCancelled,
          renderedDisposed, tickThrew, disposeThrew>>

canvasVars == <<instances, canvasMounted, talkingHeadInstance, talkingHeadRef,
                lastCall, usedDisposed, loadedDisposed>>

sessionVars == <<sessionState, prevState, sessions, sessionPromiseRef,
                 audioContextRef, mediaStreamRef, sourceRef, sessionStopped>>

vars == <<headVars, canvasVars, sessionVars>>

audioVars == <<audioCtx, ctxTime, audioWorkletNode, audioStartTime, posted>>
timerVars == <<timers, visemeTimeouts, nextHandle, lastCancelled>>
meshVars  == <<avatarLoad, headMesh, morphTargetInfluences>>
loopVars  == <<rafPending, renderedDisposed, tickThrew>>
hostVars  == <<attached, rendererDisposed, observing, disposeThrew>>

(* ------------------------- helper operators --------------------------- *)

Max(a, b) == IF a >= b THEN a ELSE b

SeqToSet(s) == { s[i] : i \in 1..Len(s) }

\* handles of the timers that are registered and have neither fired nor
\* been cancelled
Outstanding == DOMAIN timers

\* mutant of ClearTimeouts: the forEach(clearTimeout) is left out
ClearTimeoutsNone(ts, handles) == ts

\* visemeTimeouts.forEach(timeout => clearTimeout(timeout)): the timers left
ClearTimeouts(ts, handles) ==
  [h \in (DOMAIN ts) \ SeqToSet(handles) |-> ts[h]]

\* number of outstanding timers the forEach(clearTimeout) cancels
Cancelled(ts, handles) == Cardinality((DOMAIN ts) \cap SeqToSet(handles))

\* a JavaScript number: NaN, or a value in units
Num(v) == [nan |-> FALSE, val |-> v]
NaN == [nan |-> TRUE, val |-> 0]

\* a + b on JavaScript numbers
Plus(a, b) == IF a.nan \/ b.nan THEN NaN ELSE Num(a.val + b.val)

\* arr[i] as a number; undefined (an index outside the array) adds up to NaN
At(arr, i) == IF i \in 1..Len(arr) THEN Num(arr[i]) ELSE NaN

\* the delay setTimeout uses: a NaN or negative delay is 0
TimerDelay(d) == IF d.nan THEN 0 ELSE Max(d.val, 0)

\* lipsync.times[times.length - 1] + lipsync.durations[durations.length - 1]
TotalDuration(lipsync) ==
  Plus(At(lipsync.times, Len(lipsync.times)),
       At(lipsync.durations, Len(lipsync.durations)))

\* mutant of EndDelay: the schedule offset is left out of the end timer
EndDelayNoOffset(lipsync, scheduleOffset) ==
  TimerDelay(TotalDuration(lipsync))

\* (totalDuration + scheduleOffset) * 1000, as a delay in units
EndDelay(lipsync, scheduleOffset) ==
  TimerDelay(Plus(TotalDuration(lipsync), Num(scheduleOffset)))

\* (lipsync.times[i] + scheduleOffset) * 1000, as a delay in units
VisemeDelay(lipsync, i, scheduleOffset) ==
  TimerDelay(Plus(At(lipsync.times, i), Num(scheduleOffset)))

\* mutant of NewTimers: the end timer is not registered
NewTimersNoEnd(lipsync, scheduleOffset, owner, first) ==
  LET n == Len(lipsync.visemes) IN
  [h \in first..(first + n - 1) |->
     [kind |-> "viseme", viseme |-> lipsync.visemes[h - first + 1],
      delay |-> VisemeDelay(lipsync, h - first + 1, scheduleOffset),
      elapsed |-> 0, owner |-> owner, lipsync |-> lipsync,
      offset |-> scheduleOffset]]

\* the timers playVisemes registers: one per viseme, then the end timer;
\* owner, lipsync and offset record the call that registered the timer
NewTimers(lipsync, scheduleOffset, owner, first) ==
  LET n == Len(lipsync.visemes) IN
  [h \in first..(first + n) |->
     IF h < first + n
     THEN [kind |-> "viseme", viseme |-> lipsync.visemes[h - first + 1],
           delay |-> VisemeDelay(lipsync, h - first + 1, scheduleOffset),
           elapsed |-> 0, owner |-> owner, lipsync |-> lipsync,
           offset |-> scheduleOffset]
     ELSE [kind |-> "end", viseme |-> "sil",
           delay |-> EndDelay(lipsync, scheduleOffset),
           elapsed |-> 0, owner |-> owner, lipsync |-> lipsync,
           offset |-> scheduleOffset]]

\* the handles pushed by playVisemes, in push order
NewHandles(lipsync, first) ==
  [i \in 1..(Len(lipsync.visemes) + 1) |-> first + i - 1]

Merge(f, g) == [x \in (DOMAIN f) \cup (DOMAIN g) |->
                  IF x \in DOMAIN g THEN g[x] ELSE f[x]]

\* setViseme: "Reset all visemes"
ResetVisemes(dict, infl) ==
  [c \in Channels |->
     IF c \in dict /\ c \in KnownVisemeChannels THEN 0 ELSE infl[c]]

\* mutant of SetViseme: the tests for the mesh and for the channel index are
\* left out
SetVisemeUnguarded(dict, infl, viseme) ==
  IF viseme # "sil"
  THEN [ResetVisemes(dict, infl) EXCEPT ![VisemeChannel(viseme)] = InfluenceOn]
  ELSE ResetVisemes(dict, infl)

\* setViseme(viseme) on the mesh with dictionary dict
SetViseme(dict, infl, viseme) ==
  IF dict = NoMesh THEN infl
  ELSE LET reset == ResetVisemes(dict, infl) IN
       IF viseme # "sil" /\ VisemeChannel(viseme) \in dict
       THEN [reset EXCEPT ![VisemeChannel(viseme)] = InfluenceOn]
       ELSE reset

\* mutant of SetMoodInfluences: a mood change also resets the mouth to silence
SetMoodResetsVisemes(dict, infl, mood) ==
  IF dict # NoMesh /\ "mouthSmile" \in dict
  THEN [SetViseme(dict, infl, "sil") EXCEPT
          !["mouthSmile"] = IF mood = "happy" THEN SmileHappy ELSE 0]
  ELSE infl

\* setMood(mood): the influences written
SetMoodInfluences(dict, infl, mood) ==
  IF dict # NoMesh /\ "mouthSmile" \in dict
  THEN [infl EXCEPT !["mouthSmile"] = IF mood = "happy" THEN SmileHappy ELSE 0]
  ELSE infl

\* this.audioCtx.currentTime + audioBufferDelay - this.audioStartTime
ScheduleTime(now, anchor) == now + audioBufferDelay - anchor

\* mutant of ResetAnchor: stopSpeaking leaves the anchor alone
ResetAnchorNone(ctx, now, anchor) == anchor

\* stopSpeaking: if (this.audioCtx) this.audioStartTime = audioCtx.currentTime
ResetAnchor(ctx, now, anchor) == IF ctx # "null" THEN now ELSE anchor

Due(t) == t.elapsed >= t.delay

\* a timer's callback runs at the instant the timer becomes due (tick does
\* not pass a due timer); timers due at the same instant run in
\* registration order
NextToFire(h) ==
  /\ h \in DOMAIN timers
  /\ Due(timers[h])
  /\ \A g \in DOMAIN timers : Due(timers[g]) => g >= h


(* ------------------------------- Init --------------------------------- *)

\* the state after the constructor (lines 63-125), before AvatarCanvas is
\* mounted and before any session is started
Init ==
  /\ audioCtx = "null"
  /\ ctxTime = 0
  /\ audioWorkletNode = FALSE
  /\ audioStartTime = 0
  /\ posted = 0
  /\ inflight = <<>>
  /\ calls = 0
  /\ timers = <<>>
  /\ visemeTimeouts = <<>>
  /\ nextHandle = 1
  /\ isSpeaking = FALSE
  /\ avatarLoad = "loading"
  /\ headMesh = NoMesh
  /\ morphTargetInfluences = [c \in Channels |-> 0]
  /\ avatarMood = "neutral"
  /\ rafPending = TRUE
  /\ attached = TRUE
  /\ rendererDisposed = FALSE
  /\ observing = TRUE
  /\ stopped = FALSE
  /\ wordCalls = 0
  /\ lastCancelled = 0
  /\ renderedDisposed = FALSE
  /\ tickThrew = FALSE
  /\ disposeThrew = FALSE
  /\ instances = <<>>
  /\ canvasMounted = FALSE
  /\ talkingHeadInstance = 0
  /\ talkingHeadRef = 0
  /\ lastCall = "none"
  /\ usedDisposed = FALSE
  /\ loadedDisposed = FALSE
  /\ sessionState = "idle"
  /\ prevState = "idle"
  /\ sessions = <<>>
  /\ sessionPromiseRef = 0
  /\ audioContextRef = 0
  /\ mediaStreamRef = 0
  /\ sourceRef = 0
  /\ sessionStopped = FALSE

(* ------------------------------ actions ------------------------------- *)

\* playVisemes(lipsync, scheduleOffset), called by the streamAudio call owner
playVisemes(lipsync, scheduleOffset, owner) ==
  /\ timers' = Merge(ClearTimeouts(timers, visemeTimeouts),
                     NewTimers(lipsync, scheduleOffset, owner, nextHandle))
  /\ visemeTimeouts' = NewHandles(lipsync, nextHandle)
  /\ nextHandle' = nextHandle + Len(lipsync.visemes) + 1
  /\ isSpeaking' = TRUE
  /\ lastCancelled' = Cancelled(timers, visemeTimeouts)

\* mutant of streamAudioRest: the test for words is left out
streamAudioRestAlways(id, text, node, anchor) ==
  /\ posted' = IF node THEN posted + 1 ELSE posted
  /\ playVisemes(wordsToVisemes(text), ScheduleTime(ctxTime, anchor), id)

\* streamAudio from line 205 on: post the buffer, then schedule the visemes
streamAudioRest(id, text, node, anchor) ==
  /\ posted' = IF node THEN posted + 1 ELSE posted
  /\ IF Len(Words(text)) > 0
     THEN playVisemes(wordsToVisemes(text), ScheduleTime(ctxTime, anchor), id)
     ELSE UNCHANGED <<timerVars, isSpeaking>>

\* streamAudio(data) up to its first await, or to its end when the audio
\* context exists already
streamAudio(text) ==
  /\ UNCHANGED <<canvasVars, sessionVars>>
  /\ calls < MaxCalls
  /\ calls' = calls + 1
  /\ stopped' = FALSE
  /\ wordCalls' = IF Len(Words(text)) > 0 THEN calls + 1 ELSE wordCalls
  /\ IF audioCtx = "null"
     THEN /\ audioCtx' = "running"
          /\ ctxTime' = 0
          /\ inflight' = Append(inflight, [id |-> calls + 1, text |-> text])
          /\ UNCHANGED <<audioWorkletNode, audioStartTime, posted, timerVars,
                         isSpeaking>>
     ELSE /\ streamAudioRest(calls + 1, text, audioWorkletNode, audioStartTime)
          /\ UNCHANGED <<audioCtx, ctxTime, audioWorkletNode, audioStartTime,
                         inflight>>
  /\ UNCHANGED <<meshVars, avatarMood, loopVars, hostVars>>

\* streamAudio(data) when `new AudioContext` throws: the call rejects
streamAudioCtxFails(text) ==
  /\ UNCHANGED <<canvasVars, sessionVars>>
  /\ calls < MaxCalls
  /\ audioCtx = "null"
  /\ calls' = calls + 1
  /\ stopped' = FALSE
  /\ wordCalls' = IF Len(Words(text)) > 0 THEN calls + 1 ELSE wordCalls
  /\ UNCHANGED <<audioVars, inflight, timerVars, isSpeaking, meshVars,
                 avatarMood, loopVars, hostVars>>

\* the call suspended at `await addModule` resumes: lines 198-223
streamAudioResume ==
  /\ UNCHANGED <<canvasVars, sessionVars>>
  /\ inflight # <<>>
  /\ inflight' = Tail(inflight)
  /\ audioWorkletNode' = TRUE
  /\ audioStartTime' = ctxTime
  /\ streamAudioRest(Head(inflight).id, Head(inflight).text, TRUE, ctxTime)
  /\ UNCHANGED <<audioCtx, ctxTime, calls, stopped, wordCalls, meshVars,
                 avatarMood, loopVars, hostVars>>

\* addModule rejects: the suspended call rejects at line 197
streamAudioModuleFails ==
  /\ UNCHANGED <<canvasVars, sessionVars>>
  /\ inflight # <<>>
  /\ inflight' = Tail(inflight)
  /\ UNCHANGED <<audioVars, calls, timerVars, isSpeaking, stopped, wordCalls,
                 meshVars, avatarMood, loopVars, hostVars>>

\* a due timer's callback runs: setViseme(viseme), and for the end timer
\* setViseme('sil'); isSpeaking = false
fireTimer(h) ==
  /\ UNCHANGED <<canvasVars, sessionVars>>
  /\ NextToFire(h)
  /\ timers' = [g \in (DOMAIN timers) \ {h} |-> timers[g]]
  /\ morphTargetInfluences' =
       SetViseme(headMesh, morphTargetInfluences, timers[h].viseme)
  /\ isSpeaking' = IF timers[h].kind = "end" THEN FALSE ELSE isSpeaking
  /\ UNCHANGED <<audioVars, inflight, calls, visemeTimeouts, nextHandle,
                 lastCancelled, avatarLoad, headMesh, avatarMood, loopVars,
                 hostVars, stopped, wordCalls>>

\* one unit of time passes on the timer clock and, for a running context,
\* on the engine clock; a running engine clock is followed up to MaxCtxTime
tick ==
  /\ UNCHANGED <<canvasVars, sessionVars>>
  /\ \A h \in DOMAIN timers : ~Due(timers[h])
  /\ DOMAIN timers # {} \/ audioCtx = "running"
  /\ audioCtx = "running" => ctxTime < MaxCtxTime
  /\ timers' = [h \in DOMAIN timers |->
                  [timers[h] EXCEPT !.elapsed = timers[h].elapsed + 1]]
  /\ ctxTime' = IF audioCtx = "running" THEN ctxTime + 1 ELSE ctxTime
  /\ UNCHANGED <<audioCtx, audioWorkletNode, audioStartTime, posted, inflight,
                 calls, visemeTimeouts, nextHandle, lastCancelled, isSpeaking,
                 meshVars, avatarMood, loopVars, hostVars, stopped, wordCalls>>

\* stopSpeaking()
stopSpeaking ==
  /\ UNCHANGED <<canvasVars, sessionVars>>
  /\ timers' = ClearTimeouts(timers, visemeTimeouts)
  /\ visemeTimeouts' = <<>>
  /\ lastCancelled' = Cancelled(timers, visemeTimeouts)
  /\ morphTargetInfluences' = SetViseme(headMesh, morphTargetInfluences, "sil")
  /\ isSpeaking' = FALSE
  /\ audioStartTime' = ResetAnchor(audioCtx, ctxTime, audioStartTime)
  /\ stopped' = TRUE
  /\ UNCHANGED <<audioCtx, ctxTime, audioWorkletNode, posted, inflight, calls,
                 nextHandle, avatarLoad, headMesh, avatarMood, loopVars,
                 hostVars, wordCalls>>

\* setMood(mood)
setMood(mood) ==
  /\ UNCHANGED <<canvasVars, sessionVars>>
  /\ avatarMood' = mood
  /\ morphTargetInfluences' =
       SetMoodInfluences(headMesh, morphTargetInfluences, mood)
  /\ UNCHANGED <<audioVars, inflight, calls, timerVars, isSpeaking, avatarLoad,
                 headMesh, loopVars, hostVars, stopped, wordCalls>>

\* showAvatar: the loader's onLoad callback; mesh is the dictionary of the
\* last mesh child with a morphTargetDictionary, NoMesh when there is none
showAvatarLoaded(mesh) ==
  /\ UNCHANGED <<canvasVars, sessionVars>>
  /\ avatarLoad = "loading"
  /\ avatarLoad' = "resolved"
  /\ headMesh' = mesh
  /\ UNCHANGED <<audioVars, inflight, calls, timerVars, isSpeaking,
                 morphTargetInfluences, avatarMood, loopVars, hostVars,
                 stopped, wordCalls>>

\* showAvatar: the loader's onError callback rejects the promise
showAvatarFailed ==
  /\ UNCHANGED <<canvasVars, sessionVars>>
  /\ avatarLoad = "loading"
  /\ avatarLoad' = "rejected"
  /\ UNCHANGED <<audioVars, inflight, calls, timerVars, isSpeaking, headMesh,
                 morphTargetInfluences, avatarMood, loopVars, hostVars,
                 stopped, wordCalls>>

\* mutant of RafAfterTick: requestAnimationFrame is the last statement of
\* animate()
RafAfterTickLast(threw) == ~threw

\* whether a frame callback is registered when animate() is left:
\* requestAnimationFrame(this.animate) is its first statement
RafAfterTick(threw) == TRUE

\* animate(): the frame callback re-registers itself, updates the mixers,
\* the head motion and the dynamic bones, then renders.  threw: one of the
\* updates throws (the mixer exists once the asset is loaded); the exception
\* leaves animate() and renderer.render is not reached
animate(threw) ==
  /\ UNCHANGED <<canvasVars, sessionVars>>
  /\ rafPending
  /\ threw => avatarLoad = "resolved"
  /\ rafPending' = RafAfterTick(threw)
  /\ renderedDisposed' = (renderedDisposed \/ (rendererDisposed /\ ~threw))
  /\ tickThrew' = (tickThrew \/ threw)
  /\ UNCHANGED <<audioVars, inflight, calls, timerVars, isSpeaking, meshVars,
                 avatarMood, hostVars, stopped, wordCalls>>

\* dispose(); removeChild throws when the canvas is no child of the
\* container any more, and the statements after it do not run
dispose ==
  /\ UNCHANGED <<canvasVars, sessionVars>>
  /\ timers' = ClearTimeouts(timers, visemeTimeouts)
  /\ visemeTimeouts' = <<>>
  /\ lastCancelled' = Cancelled(timers, visemeTimeouts)
  /\ rendererDisposed' = TRUE
  /\ IF attached
     THEN /\ attached' = FALSE
          /\ audioCtx' = IF audioCtx # "null" THEN "closed" ELSE audioCtx
          /\ observing' = FALSE
          /\ UNCHANGED disposeThrew
     ELSE /\ disposeThrew' = TRUE
          /\ UNCHANGED <<attached, audioCtx, observing>>
  /\ UNCHANGED <<ctxTime, audioWorkletNode, audioStartTime, posted, inflight,
                 calls, nextHandle, isSpeaking, meshVars, avatarMood, loopVars,
                 stopped, wordCalls>>

\* one instance: its public methods, the timers and clocks, the asset loader's
\* callbacks and the frame callback
Next ==
  \/ \E text \in Texts : streamAudio(text)
  \/ \E text \in Texts : streamAudioCtxFails(text)
  \/ streamAudioResume
  \/ streamAudioModuleFails
  \/ \E h \in DOMAIN timers : fireTimer(h)
  \/ tick
  \/ stopSpeaking
  \/ \E mood \in Moods : setMood(mood)
  \/ \E mesh \in Meshes \cup {NoMesh} : showAvatarLoaded(mesh)
  \/ showAvatarFailed
  \/ \E threw \in BOOLEAN : animate(threw)
  \/ dispose

Spec == Init /\ [][Next]_vars

\* timers fire once due and time passes for the timers outstanding: the event
\* loop keeps running
FairSpec ==
  /\ Spec
  /\ WF_vars(tick /\ DOMAIN timers # {})
  /\ WF_vars(\E h \in DOMAIN timers : fireTimer(h))


(* ---------------------- AvatarCanvas and App -------------------------- *)

\* the cleanup of the AvatarCanvas effect: talkingHeadInstance.current is
\* disposed
CleanupInstance(insts, ref) ==
  IF ref # 0 THEN [insts EXCEPT ![ref].disposed = TRUE] ELSE insts

\* App calls method op of the instance talkingHeadRef.current holds
CallInstance(op) ==
  /\ lastCall' = op
  /\ usedDisposed' = (usedDisposed \/ instances[talkingHeadRef].disposed)

\* AvatarCanvas is mounted and its effect runs: a TalkingHead is created on
\* the container and showAvatar starts loading (a remounted component, as
\* under React.StrictMode, runs the effect again)
mountCanvas ==
  /\ ~canvasMounted
  /\ Len(instances) < MaxInstances
  /\ canvasMounted' = TRUE
  /\ IF talkingHeadInstance = 0
     THEN /\ instances' =
               Append(instances, [load |-> "loading", disposed |-> FALSE])
          /\ talkingHeadInstance' = Len(instances) + 1
     ELSE UNCHANGED <<instances, talkingHeadInstance>>
  /\ UNCHANGED <<talkingHeadRef, lastCall, usedDisposed, loadedDisposed,
                 headVars, sessionVars>>

\* AvatarCanvas is unmounted: the effect's cleanup disposes the instance and
\* clears AvatarCanvas's ref; App's ref is not touched
unmountCanvas ==
  /\ canvasMounted
  /\ canvasMounted' = FALSE
  /\ instances' = CleanupInstance(instances, talkingHeadInstance)
  /\ talkingHeadInstance' = 0
  /\ UNCHANGED <<talkingHeadRef, lastCall, usedDisposed, loadedDisposed,
                 headVars, sessionVars>>

\* showAvatar of instance i resolves: .then(() => onLoad(instance)), and
\* App's onLoad stores the instance in talkingHeadRef.current
avatarLoaded(i) ==
  /\ i \in DOMAIN instances
  /\ instances[i].load = "loading"
  /\ instances' = [instances EXCEPT ![i].load = "resolved"]
  /\ talkingHeadRef' = i
  /\ loadedDisposed' = (loadedDisposed \/ instances[i].disposed)
  /\ UNCHANGED <<canvasMounted, talkingHeadInstance, lastCall, usedDisposed,
                 headVars, sessionVars>>

\* showAvatar of instance i rejects: .catch(console.error)
avatarLoadFailed(i) ==
  /\ i \in DOMAIN instances
  /\ instances[i].load = "loading"
  /\ instances' = [instances EXCEPT ![i].load = "rejected"]
  /\ UNCHANGED <<canvasMounted, talkingHeadInstance, talkingHeadRef, lastCall,
                 usedDisposed, loadedDisposed, headVars, sessionVars>>

\* handleModelAudio, called by onmessage for a chunk of model audio:
\* if (talkingHeadRef.current) talkingHeadRef.current.streamAudio(...)
handleModelAudio ==
  IF talkingHeadRef # 0
  THEN CallInstance("streamAudio")
  ELSE UNCHANGED <<lastCall, usedDisposed>>

\* App's effect on sessionState: talkingHeadRef.current?.setMood(...)
moodEffect ==
  /\ talkingHeadRef # 0
  /\ CallInstance("setMood")
  /\ UNCHANGED <<instances, canvasMounted, talkingHeadInstance, talkingHeadRef,
                 loadedDisposed, headVars, sessionVars>>


(* --------------------------- useGeminiLive ---------------------------- *)

\* a startSession call right after onStateChange('connecting'): awaiting
\* getUserMedia, nothing acquired
NewSession ==
  [phase |-> "mic", conn |-> "none", stream |-> "none", ctx |-> "none",
   closeReq |-> FALSE]

\* onStateChange / setSessionState: the states reps are reported in order
Reported(reps) ==
  /\ sessionState' = IF reps = <<>> THEN sessionState ELSE reps[Len(reps)]
  /\ prevState' = CASE Len(reps) >= 2 -> reps[Len(reps) - 1]
                    [] Len(reps) = 1 -> sessionState
                    [] OTHER -> prevState

\* mutant of FailureReports: stopSession is not called after onError
FailureReportsNoStop == <<"error">>

\* what a failure reports: onError(...) (App sets 'error'), then
\* stopSession() (onStateChange('idle'))
FailureReports == <<"error", "idle">>

\* stopSession on the sessions ss, the refs holding promiseRef, ctxRef and
\* streamRef: the session of promiseRef is closed once its promise has
\* resolved (at once when it has), the tracks of streamRef are stopped, the
\* context of ctxRef is closed
StopSessions(ss, promiseRef, ctxRef, streamRef) ==
  [k \in DOMAIN ss |->
     [ss[k] EXCEPT
        !.conn = IF k = promiseRef /\ ss[k].phase = "started"
                    /\ ss[k].conn = "open"
                 THEN "closing" ELSE @,
        !.closeReq = IF k = promiseRef /\ ss[k].phase = "connecting"
                     THEN TRUE ELSE @,
        !.stream = IF k = streamRef THEN "stopped" ELSE @,
        !.ctx = IF k = ctxRef THEN "closed" ELSE @]]

\* stopSession(), run on the sessions ss with mediaStreamRef.current holding
\* streamRef; reps are the reports of the handler that calls it, ending with
\* stopSession's own onStateChange('idle')
stopSession(ss, streamRef, reps) ==
  /\ sessions' = StopSessions(ss, sessionPromiseRef, audioContextRef, streamRef)
  /\ mediaStreamRef' = 0
  /\ sourceRef' = 0
  /\ audioContextRef' =
       IF audioContextRef # 0 /\ ss[audioContextRef].ctx # "closed"
       THEN 0 ELSE audioContextRef
  /\ sessionPromiseRef' = 0
  /\ sessionStopped' = TRUE
  /\ Reported(reps)

\* handleStart -> startSession up to its first await; ControlPanel shows the
\* start button while the state is 'idle' or 'error'
handleStart ==
  /\ sessionState \in {"idle", "error"}
  /\ Len(sessions) < MaxSessions
  /\ sessions' = Append(sessions, NewSession)
  /\ Reported(<<"connecting">>)
  /\ sessionStopped' = FALSE
  /\ UNCHANGED <<sessionPromiseRef, audioContextRef, mediaStreamRef, sourceRef,
                 headVars, canvasVars>>

\* getUserMedia resolves for call k: lines 94-101, up to the await of the
\* connection
micGranted(k) ==
  /\ k \in DOMAIN sessions
  /\ sessions[k].phase = "mic"
  /\ sessions' = [sessions EXCEPT ![k].phase = "connecting",
                                  ![k].stream = "live",
                                  ![k].ctx = "open",
                                  ![k].conn = "pending"]
  /\ mediaStreamRef' = k
  /\ audioContextRef' = k
  /\ sessionPromiseRef' = k
  /\ UNCHANGED <<sessionState, prevState, sourceRef, sessionStopped,
                 headVars, canvasVars>>

\* getUserMedia rejects for call k: the catch block
micDenied(k) ==
  /\ k \in DOMAIN sessions
  /\ sessions[k].phase = "mic"
  /\ stopSession([sessions EXCEPT ![k].phase = "failed"], mediaStreamRef,
                 FailureReports)
  /\ UNCHANGED <<headVars, canvasVars>>

\* getUserMedia resolves for call k and `new AudioContext` (line 97) throws:
\* the stream is stored already, the catch block stops it
micGrantedCtxFails(k) ==
  /\ k \in DOMAIN sessions
  /\ sessions[k].phase = "mic"
  /\ stopSession([sessions EXCEPT ![k].phase = "failed", ![k].stream = "live"],
                 k, FailureReports)
  /\ UNCHANGED <<headVars, canvasVars>>

\* the connection of call k opens: onopen runs, the connect promise resolves
\* and startSession reports 'listening'; a stopSession issued meanwhile then
\* closes the session.  onopen throws when audioContextRef.current is null;
\* whether the library then still resolves the promise is its own affair:
\* resolves is either
connectOpened(k, resolves) ==
  /\ k \in DOMAIN sessions
  /\ sessions[k].conn = "pending"
  /\ ~resolves => audioContextRef = 0
  /\ sourceRef' = IF audioContextRef # 0 THEN k ELSE sourceRef
  /\ IF resolves
     THEN /\ sessions' =
               [sessions EXCEPT
                  ![k].phase = "started",
                  ![k].conn = IF sessions[k].closeReq THEN "closing" ELSE "open"]
          /\ Reported(<<"listening">>)
     ELSE /\ sessions' = [sessions EXCEPT ![k].conn = "open"]
          /\ UNCHANGED <<sessionState, prevState>>
  /\ UNCHANGED <<sessionPromiseRef, audioContextRef, mediaStreamRef,
                 sessionStopped, headVars, canvasVars>>

\* the connection of call k fails: the connect promise rejects, the catch
\* block runs
connectFailed(k) ==
  /\ k \in DOMAIN sessions
  /\ sessions[k].conn = "pending"
  /\ stopSession([sessions EXCEPT ![k].phase = "failed", ![k].conn = "closed"],
                 mediaStreamRef, FailureReports)
  /\ UNCHANGED <<headVars, canvasVars>>

\* the parts of serverContent onmessage tests: inputTranscription,
\* outputTranscription, the audio of modelTurn, turnComplete
MessageFields == {"input", "output", "audio", "turn"}

\* what onmessage reports, in order, for a message with the parts fields
MessageReports(fields) ==
  (IF "input" \in fields THEN <<"listening">> ELSE <<>>)
    \o (IF "output" \in fields THEN <<"speaking">> ELSE <<>>)
    \o (IF "turn" \in fields THEN <<"listening">> ELSE <<>>)

\* onmessage of session k for a message with the parts fields: the reports,
\* and for audio the call of onModelAudio
serverMessage(k, fields) ==
  /\ k \in DOMAIN sessions
  /\ sessions[k].conn = "open"
  /\ Reported(MessageReports(fields))
  /\ IF "audio" \in fields
     THEN handleModelAudio
     ELSE UNCHANGED <<lastCall, usedDisposed>>
  /\ UNCHANGED <<sessions, sessionPromiseRef, audioContextRef, mediaStreamRef,
                 sourceRef, sessionStopped, headVars, instances, canvasMounted,
                 talkingHeadInstance, talkingHeadRef, loadedDisposed>>

\* onerror of session k, of a connection that is opening, open or closing
connError(k) ==
  /\ k \in DOMAIN sessions
  /\ sessions[k].conn \in {"pending", "open", "closing"}
  /\ stopSession(sessions, mediaStreamRef, FailureReports)
  /\ UNCHANGED <<headVars, canvasVars>>

\* onclose of session k: the connection is closed, by the server, after
\* session.close(), or before it ever opened
connClosed(k) ==
  /\ k \in DOMAIN sessions
  /\ sessions[k].conn \in {"pending", "open", "closing"}
  /\ stopSession([sessions EXCEPT ![k].conn = "closed"], mediaStreamRef,
                 <<"idle">>)
  /\ UNCHANGED <<headVars, canvasVars>>

\* handleStop: ControlPanel shows the stop button while the state is
\* 'listening', 'speaking' or 'connecting'
handleStop ==
  /\ sessionState \in {"listening", "speaking", "connecting"}
  /\ IF talkingHeadRef # 0
     THEN CallInstance("stopSpeaking")
     ELSE UNCHANGED <<lastCall, usedDisposed>>
  /\ stopSession(sessions, mediaStreamRef, <<"idle">>)
  /\ UNCHANGED <<instances, canvasMounted, talkingHeadInstance, talkingHeadRef,
                 loadedDisposed, headVars>>

HookNext ==
  \/ handleStart
  \/ \E k \in 1..MaxSessions : micGranted(k)
  \/ \E k \in 1..MaxSessions : micDenied(k)
  \/ \E k \in 1..MaxSessions : micGrantedCtxFails(k)
  \/ \E k \in 1..MaxSessions, resolves \in BOOLEAN : connectOpened(k, resolves)
  \/ \E k \in 1..MaxSessions : connectFailed(k)
  \/ \E k \in 1..MaxSessions, fields \in SUBSET MessageFields :
       serverMessage(k, fields)
  \/ \E k \in 1..MaxSessions : connError(k)
  \/ \E k \in 1..MaxSessions : connClosed(k)
  \/ handleStop

\* the session hook and App's sessionState; no avatar is mounted
HookSpec == Init /\ [][HookNext]_vars

HostNext ==
  \/ mountCanvas
  \/ unmountCanvas
  \/ \E i \in 1..MaxInstances : avatarLoaded(i)
  \/ \E i \in 1..MaxInstances : avatarLoadFailed(i)
  \/ moodEffect
  \/ HookNext

\* App: AvatarCanvas and the instances it creates, together with the session
HostSpec == Init /\ [][HostNext]_vars

(* ------------------------------ properties ---------------------------- *)

\* the viseme channels of the resolved mesh whose influence is 1
ActiveVisemes ==
  { c \in VisemeChannels : c \in headMesh /\ morphTargetInfluences[c] = InfluenceOn }

AllVisemesZero == \A c \in VisemeChannels : morphTargetInfluences[c] = 0

\* a timer callback that writes a non-silence viseme to the mesh runs
AppliesViseme(h) ==
  /\ fireTimer(h)
  /\ timers[h].kind = "viseme"
  /\ timers[h].viseme # "sil"
  /\ VisemeChannel(timers[h].viseme) \in headMesh

\* C1: once a later streamAudio call carrying words has begun, no viseme of
\* an earlier call's timeline is applied to the mesh: every viseme a timer
\* applies belongs to the latest call issued with words.
C1_NoStaleViseme ==
  [][\A h \in DOMAIN timers : AppliesViseme(h) => timers[h].owner >= wordCalls]_vars

\* C2: right after stopSpeaking() returns, visemeTimeouts is empty, no timer
\* is outstanding, isSpeaking is false and every known viseme channel of a
\* resolved mesh has influence 0.
C2_StopClearsAll ==
  [][stopSpeaking =>
       /\ visemeTimeouts' = <<>>
       /\ DOMAIN timers' = {}
       /\ isSpeaking' = FALSE
       /\ \A c \in KnownVisemeChannels :
            c \in headMesh' => morphTargetInfluences'[c] = 0]_vars

\* C2 witness: stopSpeaking ran on a resolved mesh and cancelled outstanding
\* timers
C2_Witness ==
  /\ stopped
  /\ lastCancelled > 0
  /\ headMesh = FullMesh
  /\ DOMAIN timers = {}

\* C3: after stopSpeaking() returns, until a streamAudio call is issued after
\* the stop, isSpeaking stays false and no timer applies a non-silence viseme.
C3_NoResurrection ==
  /\ [](stopped => ~isSpeaking)
  /\ [][stopped => \A h \in DOMAIN timers : ~AppliesViseme(h)]_vars

\* C4: after setViseme(v), v not silence, on a resolved mesh that has the
\* channel viseme_v, exactly that channel has influence 1 and every other
\* viseme channel has influence 0, whatever the influences were before.
C4_ExactlyOne ==
  [][\A h \in DOMAIN timers :
       (/\ fireTimer(h)
        /\ timers[h].viseme # "sil"
        /\ headMesh # NoMesh
        /\ VisemeChannel(timers[h].viseme) \in headMesh) =>
         \A c \in VisemeChannels :
           morphTargetInfluences'[c] =
             IF c = VisemeChannel(timers[h].viseme) THEN InfluenceOn ELSE 0]_vars

\* C5: in every reachable state at most one viseme channel of the mesh has
\* influence 1 and all other viseme channels have influence 0.
C5_AtMostOneViseme ==
  /\ Cardinality(ActiveVisemes) <= 1
  /\ \A c \in VisemeChannels : morphTargetInfluences[c] \in {0, InfluenceOn}

\* a streamAudio call whose chunk has no words takes a step
ZeroWordStep ==
  \/ streamAudio("")
  \/ streamAudioCtxFails("")
  \/ (inflight # <<>> /\ Head(inflight).text = ""
       /\ (streamAudioResume \/ streamAudioModuleFails))

\* C6: a streamAudio call whose chunk has zero words registers no timers and
\* leaves isSpeaking, the pending events and the mesh as they were; it posts
\* at most its own buffer.
C6_ZeroWordsFrame ==
  [][ZeroWordStep =>
       /\ UNCHANGED <<timers, visemeTimeouts, nextHandle, isSpeaking,
                      morphTargetInfluences>>
       /\ posted' \in {posted, posted + 1}]_vars

\* C6 witness: the latest call had no words, was fed to the worklet, and the
\* timeline of an earlier call is still scheduled
C6_Witness ==
  /\ wordCalls >= 1
  /\ calls > wordCalls
  /\ posted = calls
  /\ isSpeaking
  /\ \E h \in DOMAIN timers : timers[h].kind = "viseme" /\ timers[h].owner = wordCalls

\* C7: the end timer of a timeline of N >= 1 events with total duration D,
\* scheduled with offset S >= 0, fires no earlier than D + S after the call
\* and after every viseme timer of that timeline.
C7_TerminalLast ==
  [][\A h \in DOMAIN timers :
       (fireTimer(h) /\ timers[h].kind = "end"
          /\ Len(timers[h].lipsync.visemes) >= 1 /\ timers[h].offset >= 0) =>
         /\ timers[h].elapsed >=
              TotalDuration(timers[h].lipsync).val + timers[h].offset
         /\ \A g \in DOMAIN timers : timers[g].owner = timers[h].owner => g = h]_vars

\* C7 witness: the end timer of a two-viseme timeline has fired (isSpeaking
\* was cleared while the handles of the timeline are still in visemeTimeouts)
C7_Witness ==
  /\ Len(visemeTimeouts) = 3
  /\ DOMAIN timers = {}
  /\ ~isSpeaking

\* the engine clock has reached the time up to which it is followed
CutOff == audioCtx = "running" /\ ctxTime = MaxCtxTime

\* C8: once a timeline has been scheduled then, unless the instance is
\* disposed (or the behaviour leaves the time followed), eventually and from
\* then on isSpeaking is false and every viseme channel is 0.
C8_EventuallySilent ==
  (<>isSpeaking) =>
    <>[](rendererDisposed \/ CutOff \/ (~isSpeaking /\ AllVisemesZero))

\* C9: after dispose() no viseme timer is outstanding and no frame is
\* rendered by a re-registered animation-frame callback.
C9_QuiescentAfterDispose ==
  rendererDisposed => (DOMAIN timers = {} /\ ~renderedDisposed)

\* C10: no dispose() call throws, a repeated one included.
C10_DisposeNeverThrows == ~disposeThrew

\* C11: between construction and dispose an animation-frame callback is
\* always pending, whatever throws inside a tick.
C11_FramePending == ~rendererDisposed => rafPending

\* C11 witness: an update threw inside a tick before dispose, and a frame
\* callback is pending
C11_Witness ==
  /\ tickThrew
  /\ ~rendererDisposed
  /\ rafPending

\* C12: every animation tick submits its render and no exception leaves
\* animate(), also when an update fails inside the tick.
C12_TickRenders == ~tickThrew

\* a step that calls setViseme: a timer callback or stopSpeaking
SetVisemeStep == (\E h \in DOMAIN timers : fireTimer(h)) \/ stopSpeaking

\* C13: while no mesh with a morph-channel table is resolved, setViseme,
\* setMood and the timer callbacks change no channel influence; on a resolved
\* mesh that lacks the requested viseme channel or mouthSmile they set no
\* channel to 1 and write no channel the mesh lacks.
C13_NoMeshNoOp ==
  /\ [][(headMesh = NoMesh /\ (SetVisemeStep \/ \E m \in Moods : setMood(m)))
          => UNCHANGED morphTargetInfluences]_vars
  /\ [][\A h \in DOMAIN timers :
          (fireTimer(h) /\ headMesh # NoMesh
             /\ VisemeChannel(timers[h].viseme) \notin headMesh) =>
            \A c \in Channels :
              /\ morphTargetInfluences'[c] = InfluenceOn
                   => morphTargetInfluences[c] = InfluenceOn
              /\ c \notin headMesh
                   => morphTargetInfluences'[c] = morphTargetInfluences[c]]_vars
  /\ [][(headMesh # NoMesh /\ "mouthSmile" \notin headMesh
           /\ \E m \in Moods : setMood(m))
          => UNCHANGED morphTargetInfluences]_vars

\* C13 witness: the asset failed to load, a whole timeline ran off against
\* the missing mesh and a happy mood was set; no influence changed
C13_Witness ==
  /\ avatarLoad = "rejected"
  /\ headMesh = NoMesh
  /\ Len(visemeTimeouts) = 3
  /\ DOMAIN timers = {}
  /\ avatarMood = "happy"
  /\ \A c \in Channels : morphTargetInfluences[c] = 0

\* C14: setMood(name), for any name, changes only the mouthSmile channel and
\* the stored mood: it leaves every viseme channel, isSpeaking and the
\* pending events unchanged; setViseme and the timer callbacks leave the
\* mouthSmile channel unchanged.
C14_MoodOrthogonal ==
  /\ [][(\E m \in Moods : setMood(m)) =>
          /\ \A c \in VisemeChannels :
               morphTargetInfluences'[c] = morphTargetInfluences[c]
          /\ UNCHANGED <<isSpeaking, timers, visemeTimeouts>>]_vars
  /\ [][SetVisemeStep =>
          morphTargetInfluences'["mouthSmile"] =
            morphTargetInfluences["mouthSmile"]]_vars

\* C14 witness: amid a timeline the smile of a happy mood and a viseme are
\* on together
C14_Witness ==
  /\ headMesh = FullMesh
  /\ avatarMood = "happy"
  /\ morphTargetInfluences["mouthSmile"] = SmileHappy
  /\ morphTargetInfluences[VisemeChannel("PP")] = InfluenceOn
  /\ isSpeaking
  /\ DOMAIN timers # {}

\* loading the playback module failed: the context exists, no playback node
\* does and no call is initialising one
InitFailed ==
  /\ audioCtx # "null"
  /\ ~audioWorkletNode
  /\ inflight = <<>>

\* a streamAudio call runs to its end and fulfils: one issued when the
\* context exists, or the suspended one resumed
Fulfils(text) ==
  \/ (audioCtx # "null" /\ streamAudio(text))
  \/ (inflight # <<>> /\ Head(inflight).text = text /\ streamAudioResume)

\* C15: once audio initialisation has failed, no streamAudio call schedules
\* viseme events or fulfils while no playback node exists.
C15_NoPlaybackNoSchedule ==
  [][InitFailed => \A text \in Texts : ~Fulfils(text)]_vars

\* C16: every streamAudio call that fulfils has posted its buffer to the
\* playback worklet exactly once.
C16_PostedOnce ==
  [][\A text \in Texts : Fulfils(text) => posted' = posted + 1]_vars

\* a streamAudio call with words reaches playVisemes with the mapper's
\* timeline of text
SchedulesTimeline(text) == Len(Words(text)) > 0 /\ Fulfils(text)

\* C17: right after playVisemes returns for a timeline of N >= 1 visemes,
\* isSpeaking is true, the outstanding timers are exactly the N viseme timers
\* and the end timer of this timeline, and every timer outstanding before the
\* call has been cancelled.
C17_CancelThenSchedule ==
  [][\A text \in Texts :
       (SchedulesTimeline(text) /\ Len(wordsToVisemes(text).visemes) >= 1) =>
         LET n == Len(wordsToVisemes(text).visemes) IN
         /\ isSpeaking'
         /\ DOMAIN timers' = nextHandle..(nextHandle + n)
         /\ \A h \in nextHandle..(nextHandle + n - 1) :
              /\ timers'[h].kind = "viseme"
              /\ timers'[h].viseme = wordsToVisemes(text).visemes[h - nextHandle + 1]
         /\ timers'[nextHandle + n].kind = "end"
         /\ (DOMAIN timers) \cap (DOMAIN timers') = {}
         /\ lastCancelled' = Cardinality(DOMAIN timers)]_vars

\* C17 witness: a timeline has just been scheduled (none of its three timers
\* has run for any time) in a call that cancelled outstanding timers
C17_Witness ==
  /\ isSpeaking
  /\ lastCancelled > 0
  /\ Cardinality(DOMAIN timers) = 3
  /\ \A h \in DOMAIN timers : timers[h].elapsed = 0

\* C18: in every reachable state visemeTimeouts holds exactly the handles of
\* the outstanding timers.
C18_PendingExact == SeqToSet(visemeTimeouts) = DOMAIN timers

\* C19: playVisemes called with an empty timeline registers no timer and
\* leaves isSpeaking unchanged.
C19_EmptyTimeline ==
  [][\A text \in Texts :
       (SchedulesTimeline(text) /\ Len(wordsToVisemes(text).visemes) = 0) =>
         /\ nextHandle' = nextHandle
         /\ \A h \in DOMAIN timers' : h \in DOMAIN timers
         /\ isSpeaking' = isSpeaking]_vars

\* C20: whenever a streamAudio call computes a schedule offset, audio
\* initialisation has completed: the playback node exists and audioStartTime
\* was read from the engine clock after it.
C20_AnchorBeforeOffset ==
  [][\A text \in Texts :
       (SchedulesTimeline(text) /\ audioCtx # "null" /\ streamAudio(text))
         => audioWorkletNode]_vars

\* C21: right after stopSpeaking() with an audio context, audioStartTime is
\* the engine's current time, so that a streamAudio call at the same engine
\* time passes exactly the compensation delay as offset; with no audio
\* context audioStartTime is left unchanged.
C21_StopReanchors ==
  [][stopSpeaking =>
       IF audioCtx # "null"
       THEN /\ audioStartTime' = ctxTime'
            /\ ScheduleTime(ctxTime', audioStartTime') = audioBufferDelay
       ELSE audioStartTime' = audioStartTime]_vars

\* C21 witness: stopSpeaking moved the anchor of a running context from the
\* reading at initialisation to a later one
C21_Witness ==
  /\ stopped
  /\ audioCtx = "running"
  /\ audioWorkletNode
  /\ ctxTime > 0
  /\ audioStartTime = ctxTime

\* C22: a callback of a timeline fires no later than its timeline offset plus
\* the fixed compensation delay after the streamAudio call that scheduled
\* it, however long ago the clock was anchored.
C22_DelayIndependentOfAge ==
  [][\A h \in DOMAIN timers :
       (fireTimer(h) /\ Len(timers[h].lipsync.visemes) >= 1) =>
         timers[h].elapsed <=
           (timers[h].delay - timers[h].offset) + audioBufferDelay]_vars

\* C23: in every reachable state isSpeaking is true only if an end timer
\* that will clear it is outstanding.
C23_SpeakingHasEndTimer ==
  isSpeaking => \E h \in DOMAIN timers : timers[h].kind = "end"

\* C24: no operation is invoked on a disposed TalkingHead: the instance
\* handed to onLoad and the instance App calls streamAudio, setMood or
\* stopSpeaking on has not had dispose() called.
C24_NoUseAfterDispose == ~usedDisposed /\ ~loadedDisposed

\* C25: after stopSession() and until the next startSession the reported
\* state stays 'idle' and the microphone stream, the audio context and the
\* live session stay released.
C25_StaysStopped ==
  sessionStopped =>
    /\ sessionState = "idle"
    /\ \A k \in DOMAIN sessions :
         /\ sessions[k].stream # "live"
         /\ sessions[k].ctx # "open"
         /\ sessions[k].conn # "open"

\* C26: a close or error callback of an earlier session that stopSession
\* has closed leaves every later session alone: it does not close it, stop
\* its stream or context, or change the state reported for it.
C26_LateCallbackHarmless ==
  [][\A k \in DOMAIN sessions :
       ((connClosed(k) \/ connError(k)) /\ sessions[k].conn = "closing"
          /\ Len(sessions) > k) =>
         /\ \A j \in (k + 1)..Len(sessions) : sessions'[j] = sessions[j]
         /\ sessionState' = sessionState]_vars

\* C27: a failure the hook reports sets 'error' and then 'idle': 'error' is
\* never the state left behind.
C27_ErrorThenIdle == sessionState # "error"

\* C27 witness: a session that was connected failed; 'error' was reported,
\* then 'idle'
C27_Witness ==
  /\ prevState = "error"
  /\ sessionState = "idle"
  /\ \E k \in DOMAIN sessions : sessions[k].phase = "started"

====
